---- MODULE Spec2Model ----
(***************************************************************************)
(* Model of src/src/crud/app.py: the CRUD route-group binder               *)
(* (CRUDApiRouter) and the registry / publisher (CRUDApi).                 *)
(*                                                                         *)
(* Two specifications share the variables:                                 *)
(*   Spec          the setup-time calls register_router, include_router    *)
(*                 and publish on one CRUDApi object;                      *)
(*   SpecHandlers  the request handlers of one route group (read_item,     *)
(*                 create_item, update_item, delete_item) applied to one   *)
(*                 path identifier drawn from a bounded set.               *)
(*                                                                         *)
(* Strings that the code takes apart or builds (identifiers, paths) are    *)
(* sequences: an identifier is a sequence of one-character strings, a path *)
(* is the sequence of the pieces the f-strings concatenate.                *)
(***************************************************************************)
EXTENDS Integers, Sequences, FiniteSets, TLC

VARIABLES
    heap,       \* the CRUDApiRouter objects ever constructed, by reference
    routers,    \* CRUDApi.__routers: a dict in insertion order
    app,        \* the routers handed to FastAPI.include_router, in call order
    lastCall,   \* the CRUDApi call made last, and whether it raised
    item_id,    \* the path identifier of the requests being handled
    handler,    \* the handler that ran last
    collab,     \* what the record factory and the store did in that handler
    storeArgs,  \* the identifier each store method was last invoked with
    response    \* what that handler gave back to the transport layer

vars == <<heap, routers, app, lastCall, item_id, handler, collab, storeArgs, response>>

registryVars == <<heap, routers, app, lastCall>>

handlerVars == <<item_id, handler, collab, storeArgs, response>>

----------------------------------------------------------------------------
(* Bounds *)

MaxGroups == 2

MaxAttach == 4

MaxIdLen == 3

----------------------------------------------------------------------------
(* Input domains *)

\* resource names a caller may pass as `datatype`
Names == {"event", "Event", "user", "ghost"}

\* the tables the datasource holds (ds.add_table)
Tables == {"event", "user"}

\* the `filters` argument: a list of filterable field names
FilterLists == {<<>>, <<"status">>}

\* characters of identifier strings
Chars == {"0", "1", "-", "+", " ", "_", "a"}

\* identifiers that arrive already typed as int
IntInputs == {-1, 0, 1, 10}

RECURSIVE StringsOfLen(_)
StringsOfLen(n) ==
    IF n = 0 THEN {<<>>}
    ELSE {Append(s, c) : s \in StringsOfLen(n - 1), c \in Chars}

Strings == UNION {StringsOfLen(n) : n \in 0..MaxIdLen}

\* the value of a path parameter typed `int | str`
IntId(n) == [kind |-> "int", int |-> n, str |-> <<>>]

StrId(s) == [kind |-> "str", int |-> 0, str |-> s]

NoId == [kind |-> "none", int |-> 0, str |-> <<>>]

IdInputs == {IntId(n) : n \in IntInputs} \cup {StrId(s) : s \in Strings}

----------------------------------------------------------------------------
(* Path helpers *)

id_path == <<"/single/{id}">>

construct_path_unconditional(base_path, path, is_plural, use_prefix) ==
    LET plural == IF is_plural THEN <<"s">> ELSE <<>>
    IN  base_path \o plural \o path

construct_path(base_path, path, is_plural, use_prefix) ==
    LET plural == IF is_plural THEN <<"s">> ELSE <<>>
    IN  IF ~use_prefix THEN base_path \o plural \o path
        ELSE path

get_tags(name, use_name_as_tag) ==
    IF use_name_as_tag THEN <<name>> ELSE <<>>

get_prefix(name, use_prefix) ==
    IF use_prefix THEN <<"/", name>> ELSE <<>>

\* str.lower() on the names in use
lower(name) ==
    CASE name = "Event" -> "event"
      [] OTHER -> name

\* DataSource.get_table: the table, or a falsy value when there is none
get_table(datatype) ==
    IF datatype \in Tables THEN <<datatype>> ELSE <<>>

table_missing_never(table) == FALSE

\* `if not table`
table_missing(table) == table = <<>>

\* APIRouter(prefix=...).get/post/put/delete(path): the route is stored
\* under prefix + path
Route(prefix, method, path, endpoint, datatype) ==
    [method |-> method, path |-> prefix \o path, endpoint |-> endpoint,
     datatype |-> datatype]

\* the routes CRUDApiRouter.__init__ registers on its APIRouter, in order
RouterRoutes(datatype, use_prefix, filters) ==
    LET base_path == <<"/", datatype>>
        prefix == get_prefix(datatype, use_prefix)
        r(method, path, endpoint) == Route(prefix, method, path, endpoint, datatype)
    IN  <<r("GET", construct_path(base_path, <<>>, TRUE, use_prefix), "read_items")>>
        \o (IF Len(filters) > 0
            THEN <<r("GET", construct_path(base_path, <<"/filter">>, TRUE, use_prefix),
                     "filter_items")>>
            ELSE <<>>)
        \o <<r("GET", construct_path(base_path, id_path, FALSE, use_prefix), "read_item"),
             r("POST", construct_path(base_path, <<>>, FALSE, use_prefix), "create_item"),
             r("PUT", construct_path(base_path, id_path, FALSE, use_prefix), "update_item"),
             r("DELETE", construct_path(base_path, id_path, FALSE, use_prefix), "delete_item"),
             r("DELETE", construct_path(base_path, <<>>, TRUE, use_prefix), "delete_all_items")>>

\* CRUDApiRouter.__init__ past the table check; `filters` and `via` (the
\* CRUDApi method that built the object) are kept for the properties
CRUDApiRouter(name, use_prefix, filters, via) ==
    [name |-> name,
     use_prefix |-> use_prefix,
     use_name_as_tag |-> TRUE,
     tags |-> get_tags(name, TRUE),
     is_included |-> FALSE,
     routes |-> RouterRoutes(lower(name), use_prefix, filters),
     filters |-> filters,
     via |-> via]

include_forgets(router) == router

\* CRUDApiRouter.include
include(router) == [router EXCEPT !.is_included = TRUE]

----------------------------------------------------------------------------
(* The registry: CRUDApi *)

\* dict.__setitem__: an existing key keeps its place
DictSet(d, key, value) ==
    IF \E i \in 1..Len(d) : d[i].key = key
    THEN [i \in 1..Len(d) |-> IF d[i].key = key THEN [key |-> key, value |-> value] ELSE d[i]]
    ELSE Append(d, [key |-> key, value |-> value])

DictKeys(d) == {d[i].key : i \in 1..Len(d)}

Call(op, name, raised) == [op |-> op, name |-> name, raised |-> raised]

\* the constructor raises ValueError when the lower-cased table is missing
ConstructorRaises(datatype) == table_missing(get_table(lower(datatype)))

register_router(datatype, use_prefix, filters) ==
    IF ConstructorRaises(datatype)
    THEN /\ lastCall' = Call("register_router", datatype, TRUE)
         /\ UNCHANGED <<heap, routers, app>>
    ELSE /\ Len(heap) < MaxGroups
         /\ heap' = Append(heap, CRUDApiRouter(datatype, use_prefix, filters, "register_router"))
         /\ routers' = DictSet(routers, datatype, Len(heap) + 1)
         /\ lastCall' = Call("register_router", datatype, FALSE)
         /\ UNCHANGED app

include_router(datatype, use_prefix, filters) ==
    IF ConstructorRaises(datatype)
    THEN /\ lastCall' = Call("include_router", datatype, TRUE)
         /\ UNCHANGED <<heap, routers, app>>
    ELSE /\ Len(heap) < MaxGroups
         /\ Len(app) < MaxAttach
         /\ heap' = Append(heap,
                include(CRUDApiRouter(datatype, use_prefix, filters, "include_router")))
         /\ routers' = DictSet(routers, datatype, Len(heap) + 1)
         /\ app' = Append(app, Len(heap) + 1)
         /\ lastCall' = Call("include_router", datatype, FALSE)

\* the routers publish hands to app.include_router, in dict order
Unattached ==
    LET refs == [i \in 1..Len(routers) |-> routers[i].value]
        pending(ref) == ~heap[ref].is_included
    IN  SelectSeq(refs, pending)

publish ==
    /\ Len(app) + Len(Unattached) <= MaxAttach
    /\ app' = app \o Unattached
    /\ lastCall' = Call("publish", "", FALSE)
    /\ UNCHANGED <<heap, routers>>

RegisterRouter ==
    /\ \E datatype \in Names, use_prefix \in BOOLEAN, filters \in FilterLists :
          register_router(datatype, use_prefix, filters)
    /\ UNCHANGED handlerVars

IncludeRouter ==
    /\ \E datatype \in Names, use_prefix \in BOOLEAN, filters \in FilterLists :
          include_router(datatype, use_prefix, filters)
    /\ UNCHANGED handlerVars

Publish ==
    /\ publish
    /\ UNCHANGED handlerVars

----------------------------------------------------------------------------
(* int(value) on a str, as convert2int and the handlers use it *)

Digits == {"0", "1"}

DigitValue(c) == IF c = "1" THEN 1 ELSE 0

\* str.strip(): int() ignores leading and trailing whitespace
RECURSIVE lstrip(_)
lstrip(s) ==
    IF s # <<>> /\ Head(s) = " " THEN lstrip(Tail(s)) ELSE s

RECURSIVE rstrip(_)
rstrip(s) ==
    IF s # <<>> /\ s[Len(s)] = " " THEN rstrip(SubSeq(s, 1, Len(s) - 1)) ELSE s

HasSign(s) == s # <<>> /\ Head(s) \in {"+", "-"}

\* the text after the optional sign
Magnitude(s) == IF HasSign(s) THEN Tail(s) ELSE s

\* digits, with single underscores allowed between two digits
RECURSIVE DigitsFrom(_, _)
DigitsFrom(s, afterDigit) ==
    IF s = <<>> THEN afterDigit
    ELSE IF Head(s) \in Digits THEN DigitsFrom(Tail(s), TRUE)
    ELSE IF Head(s) = "_" THEN afterDigit /\ Tail(s) # <<>> /\ Head(Tail(s)) \in Digits
                               /\ DigitsFrom(Tail(s), FALSE)
    ELSE FALSE

RECURSIVE Accumulate(_, _)
Accumulate(s, acc) ==
    IF s = <<>> THEN acc
    ELSE IF Head(s) = "_" THEN Accumulate(Tail(s), acc)
    ELSE Accumulate(Tail(s), 10 * acc + DigitValue(Head(s)))

\* whether int(value) returns rather than raising ValueError
int_parses(value) ==
    LET body == Magnitude(rstrip(lstrip(value)))
    IN  body # <<>> /\ DigitsFrom(body, FALSE)

\* int(value), for a value it parses
int(value) ==
    LET text == rstrip(lstrip(value))
        magnitude == Accumulate(Magnitude(text), 0)
    IN  IF HasSign(text) /\ Head(text) = "-" THEN 0 - magnitude ELSE magnitude

convert2int_isdigit(value) ==
    value # <<>> /\ \A i \in 1..Len(value) : value[i] \in Digits

convert2int(value) == int_parses(value)

\* `if isinstance(item_id, str) and convert2int(item_id): item_id = int(item_id)`
coerce_item_id(id) ==
    IF id.kind = "str" /\ convert2int(id.str) THEN IntId(int(id.str)) ELSE id

----------------------------------------------------------------------------
(* The request handlers of one route group *)

\* request bodies, already validated against model_type
Items == {"item_a", "item_b"}

\* what a store method does: returns a truthy result, returns nothing, raises
StoreOutcomes == {"result", "none", "raise"}

\* what factory.create_entity does
FactoryOutcomes == {"ok", "raise"}

\* messages of the exceptions the collaborators raise
FactoryError == "invalid field"

StoreError == "store failure"

create_entity(item) == [entity |-> item]

serialize(entity) == [serialized |-> entity.entity]

error_response_reraise(e) == [exception |-> e]

\* `except Exception as e: return {'success': False, 'error': str(e)}`
error_response(e) == [success |-> FALSE, error |-> e]

\* an exception no handler catches reaches the transport layer
Propagates(e) == [exception |-> e]

\* each handler gives the response and the identifier the store was invoked
\* with (NoId when the store method takes none or was not reached)
read_item(id, s) ==
    [store_id |-> id,
     response |-> IF s = "raise" THEN Propagates(StoreError)
                  ELSE IF s = "result" THEN [raw |-> "entity"]
                  ELSE [raw |-> "None"]]

create_item(item, f, s) ==
    IF f = "raise" THEN [store_id |-> NoId, response |-> error_response(FactoryError)]
    ELSE LET entity == create_entity(item)
         IN  [store_id |-> NoId,
              response |-> IF s = "raise" THEN error_response(StoreError)
                           ELSE IF s = "result"
                                THEN [success |-> TRUE, created_entity |-> serialize(entity)]
                                ELSE [success |-> FALSE]]

update_item(id, item, f, s) ==
    IF f = "raise" THEN [store_id |-> NoId, response |-> error_response(FactoryError)]
    ELSE LET entity == create_entity(item)
             coerced == coerce_item_id(id)
         IN  [store_id |-> coerced,
              response |-> IF s = "raise" THEN error_response(StoreError)
                           ELSE IF s = "result"
                                THEN [success |-> TRUE, updated_entity |-> serialize(entity)]
                                ELSE [success |-> FALSE]]

delete_item(id, s) ==
    LET coerced == coerce_item_id(id)
    IN  [store_id |-> coerced,
         response |-> IF s = "raise" THEN error_response(StoreError)
                      ELSE IF s = "result"
                           THEN [success |-> TRUE, deleted_id |-> coerced]
                           ELSE [success |-> FALSE]]

Collab(f, s, item) == [factory |-> f, store |-> s, item |-> item]

Invoked(method, out) ==
    IF out.store_id = NoId THEN storeArgs ELSE [storeArgs EXCEPT ![method] = out.store_id]

ReadItem ==
    /\ \E s \in StoreOutcomes :
          LET out == read_item(item_id, s)
          IN  /\ handler' = "read_item"
              /\ collab' = Collab("not_called", s, "")
              /\ storeArgs' = Invoked("get_by_id", out)
              /\ response' = out.response
    /\ UNCHANGED <<item_id, registryVars>>

CreateItem ==
    /\ \E item \in Items, f \in FactoryOutcomes, s \in StoreOutcomes :
          LET out == create_item(item, f, s)
          IN  /\ handler' = "create_item"
              /\ collab' = Collab(f, IF f = "raise" THEN "not_called" ELSE s, item)
              /\ storeArgs' = storeArgs
              /\ response' = out.response
    /\ UNCHANGED <<item_id, registryVars>>

UpdateItem ==
    /\ \E item \in Items, f \in FactoryOutcomes, s \in StoreOutcomes :
          LET out == update_item(item_id, item, f, s)
          IN  /\ handler' = "update_item"
              /\ collab' = Collab(f, IF f = "raise" THEN "not_called" ELSE s, item)
              /\ storeArgs' = Invoked("update", out)
              /\ response' = out.response
    /\ UNCHANGED <<item_id, registryVars>>

DeleteItem ==
    /\ \E s \in StoreOutcomes :
          LET out == delete_item(item_id, s)
          IN  /\ handler' = "delete_item"
              /\ collab' = Collab("not_called", s, "")
              /\ storeArgs' = Invoked("delete", out)
              /\ response' = out.response
    /\ UNCHANGED <<item_id, registryVars>>

NoResponse == [none |-> TRUE]

NoCollab == Collab("not_called", "not_called", "")

NoStoreArgs == [op \in {"get_by_id", "update", "delete"} |-> NoId]

InitRegistry ==
    /\ heap = <<>>
    /\ routers = <<>>
    /\ app = <<>>
    /\ lastCall = Call("init", "", FALSE)

InitRequest ==
    /\ handler = "none"
    /\ collab = NoCollab
    /\ storeArgs = NoStoreArgs
    /\ response = NoResponse

Init ==
    /\ InitRegistry
    /\ item_id = IntId(0)
    /\ InitRequest

Next == RegisterRouter \/ IncludeRouter \/ Publish

Spec == Init /\ [][Next]_vars

\* the handlers of one route group, for each identifier a client can send
InitHandlers ==
    /\ InitRegistry
    /\ item_id \in IdInputs
    /\ InitRequest

NextHandlers == ReadItem \/ CreateItem \/ UpdateItem \/ DeleteItem

SpecHandlers == InitHandlers /\ [][NextHandlers]_vars

----------------------------------------------------------------------------
(* Properties of the registry, checked under Spec *)

Refs == 1..Len(heap)

\* how many times app.include_router was called with this router
AttachCount(ref) == Cardinality({i \in 1..Len(app) : app[i] = ref})

Attached(ref) == AttachCount(ref) > 0

GroupRoutes(ref) == {heap[ref].routes[k] : k \in 1..Len(heap[ref].routes)}

\* the routes the serving application exposes for a resource name
AppRoutes(name) ==
    UNION {GroupRoutes(app[k]) : k \in {j \in 1..Len(app) : heap[app[j]].name = name}}

RouteOf(ref, endpoint) ==
    CHOOSE route \in GroupRoutes(ref) : route.endpoint = endpoint

HasRoute(ref, endpoint) ==
    \E k \in 1..Len(heap[ref].routes) : heap[ref].routes[k].endpoint = endpoint

\* C1: publish called twice in a row is idempotent: the second call attaches
\* no route group, so every attach count is what the first call left.
C1_SecondPublishAttachesNothing ==
    [][(lastCall.op = "publish" /\ lastCall'.op = "publish") => app' = app]_vars

\* C4: a resource whose registration has no filter fields has no filter
\* endpoint on the serving application, and a route group has a filter route
\* exactly when a non-empty filter list was supplied.
C4_NoFilterEndpointWithoutFilters ==
    /\ \A i \in 1..Len(routers) :
          Len(heap[routers[i].value].filters) = 0 =>
              ~\E route \in AppRoutes(routers[i].key) : route.endpoint = "filter_items"
    /\ \A ref \in Refs : HasRoute(ref, "filter_items") <=> Len(heap[ref].filters) > 0

C6_IncludedGroupAttachedOnce ==
    \A ref \in Refs :
        heap[ref].via = "include_router" =>
            heap[ref].is_included /\ AttachCount(ref) = 1

\* an included group, another resource registered after it, and publish
\* called at least twice since
C6_Witness ==
    \E r1, r2 \in Refs :
        /\ r1 < r2
        /\ heap[r1].via = "include_router"
        /\ heap[r2].via = "register_router"
        /\ AttachCount(r2) >= 2
        /\ lastCall.op = "publish"

\* C8: the lifecycle only moves forward: an entry of the registry is never
\* removed or replaced, and a name whose route group is attached never again
\* maps to an unattached one.
C8_RegistryEntriesNeverReplaced ==
    [][\A i \in 1..Len(routers) :
          /\ \E j \in 1..Len(routers') : routers'[j] = routers[i]
          /\ Attached(routers[i].value) =>
                \A j \in 1..Len(routers') :
                    routers'[j].key = routers[i].key =>
                        Cardinality({k \in 1..Len(app') : app'[k] = routers'[j].value}) > 0
      ]_vars

\* C9: is_included is true exactly when the route group has been attached
\* to the serving application.
C9_FlagIffAttached ==
    \A ref \in Refs : heap[ref].is_included <=> Attached(ref)

\* C10: register_router or include_router for a name whose lower-cased table
\* is missing raises, and leaves the registry and the application as they
\* were: nothing recorded under the name, no entry modified, nothing attached.
C10_MissingTableChangesNothing ==
    [][(/\ lastCall'.op \in {"register_router", "include_router"}
        /\ lower(lastCall'.name) \notin Tables)
       => (/\ lastCall'.raised
           /\ heap' = heap
           /\ routers' = routers
           /\ app' = app
           /\ lastCall'.name \notin DictKeys(routers'))]_vars

\* a failed include_router after a group was registered and attached
C10_Witness ==
    /\ lastCall = Call("include_router", "ghost", TRUE)
    /\ Len(routers) > 0
    /\ Len(app) > 0

----------------------------------------------------------------------------
(* Properties of the handlers, checked under SpecHandlers *)

AllSpaces(s) == \A i \in 1..Len(s) : s[i] = " "

OnlyDigits(s) == s # <<>> /\ \A i \in 1..Len(s) : s[i] \in Digits

\* a run of digits in which single underscores may separate two digits
IsDigitGroup(s) ==
    /\ s # <<>>
    /\ \A i \in 1..Len(s) : s[i] \in Digits \cup {"_"}
    /\ s[1] \in Digits /\ s[Len(s)] \in Digits
    /\ \A i \in 1..(Len(s) - 1) : ~(s[i] = "_" /\ s[i + 1] = "_")

IsDigit(c) == c \in Digits

RECURSIVE Decimal(_)
Decimal(ds) ==
    IF ds = <<>> THEN 0
    ELSE 10 * Decimal(SubSeq(ds, 1, Len(ds) - 1)) + DigitValue(ds[Len(ds)])

\* the integers a string denotes: whitespace, an optional sign, a digit
\* group, whitespace (at most one integer, none for any other string)
IntegerReadings(s) ==
    {IF sgn = "-" THEN 0 - Decimal(SelectSeq(SubSeq(s, pq[1], pq[2]), IsDigit))
                  ELSE Decimal(SelectSeq(SubSeq(s, pq[1], pq[2]), IsDigit)) :
        <<pq, sgn>> \in
          {x \in ({y \in (1..Len(s)) \X (1..Len(s)) : y[1] <= y[2]}) \X {"", "+", "-"} :
              LET p == x[1][1]
                  q == x[1][2]
              IN  /\ IsDigitGroup(SubSeq(s, p, q))
                  /\ AllSpaces(SubSeq(s, q + 1, Len(s)))
                  /\ IF x[2] = "" THEN AllSpaces(SubSeq(s, 1, p - 1))
                     ELSE /\ p >= 2
                          /\ s[p - 1] = x[2]
                          /\ AllSpaces(SubSeq(s, 1, p - 2))}}

IdMethods == {"update", "delete"}

Mutating == {"create_item", "update_item", "delete_item"}

Payload ==
    CASE handler = "create_item" -> [success |-> TRUE, created_entity |-> [serialized |-> collab.item]]
      [] handler = "update_item" -> [success |-> TRUE, updated_entity |-> [serialized |-> collab.item]]
      [] OTHER -> [success |-> TRUE, deleted_id |-> storeArgs["delete"]]

\* C3: create, update and delete end in exactly one of three responses and
\* never let an exception through: success with the entity or the deleted id
\* when the store returns a result, {success: false} alone when the store
\* declines, {success: false, error: message} when the factory or the store
\* raises.
C3_ThreeOutcomesNoPropagation ==
    handler \in Mutating =>
        /\ "exception" \notin DOMAIN response
        /\ collab.store = "result" => response = Payload
        /\ collab.store = "none" => response = [success |-> FALSE]
        /\ collab.factory = "raise" =>
              response = [success |-> FALSE, error |-> FactoryError]
        /\ collab.store = "raise" =>
              response = [success |-> FALSE, error |-> StoreError]
        /\ DOMAIN response \in
              {DOMAIN Payload, {"success"}, {"success", "error"}}

\* the store raised inside delete_item
C3_Witness ==
    /\ handler = "delete_item"
    /\ collab.store = "raise"
    /\ response = [success |-> FALSE, error |-> StoreError]

\* C7: get_by_id, update and delete are invoked with the same normalized
\* identifier: a string of digits reaches each of them as an integer.
C7_SameIdentifierForEveryHandler ==
    /\ \A m \in DOMAIN storeArgs :
          (storeArgs[m] # NoId /\ item_id.kind = "str" /\ OnlyDigits(item_id.str)) =>
              storeArgs[m] = IntId(Decimal(item_id.str))
    /\ \A m1, m2 \in DOMAIN storeArgs :
          (storeArgs[m1] # NoId /\ storeArgs[m2] # NoId) => storeArgs[m1] = storeArgs[m2]

====
